---- MODULE Spec2Model ----
(***************************************************************************)
(* libcaer event packets: the Polarity and IMU9 event accessors            *)
(* (events/polarity.h, events/imu9.h) and the logger (src/log.c).          *)
(*                                                                         *)
(* Machine words are modelled as the set of their set bit positions, so    *)
(* that 32 and 64 bit patterns keep their full width: OR is union, AND is  *)
(* intersection, a shift is a translation truncated to the width.          *)
(***************************************************************************)
EXTENDS Integers, FiniteSets, Sequences, TLC

VARIABLES packet, hostBigEndian, caerLogLevel, stderr, writer, overlap

vars == <<packet, hostBigEndian, caerLogLevel, stderr, writer, overlap>>

(***************************************************************************)
(* Bounds of the model.                                                    *)
(***************************************************************************)
MaxCapacity == 2

MaxRevalidations == 1

(***************************************************************************)
(* Bit patterns.                                                           *)
(***************************************************************************)
\* 2^0 .. 2^30
Pow2Table ==
    <<1, 2, 4, 8, 16, 32, 64, 128, 256, 512, 1024, 2048, 4096, 8192, 16384,
      32768, 65536, 131072, 262144, 524288, 1048576, 2097152, 4194304,
      8388608, 16777216, 33554432, 67108864, 134217728, 268435456,
      536870912, 1073741824>>

Pow2(n) == Pow2Table[n + 1]

INT32_MAX == 2147483647

INT32_MIN == (-2147483647) - 1

RECURSIVE BitsFrom(_, _)
BitsFrom(x, b) ==
    IF x = 0 THEN {}
    ELSE (IF x % 2 = 1 THEN {b} ELSE {}) \cup BitsFrom(x \div 2, b + 1)

\* the bits of a natural number below 2^31
Bits(x) == BitsFrom(x, 0)

RECURSIVE ValFrom(_, _)
ValFrom(S, b) ==
    IF b > 30 THEN 0
    ELSE (IF b \in S THEN Pow2(b) ELSE 0) + ValFrom(S, b + 1)

\* the natural number whose bits are S (S within 0..30)
Val(S) == IF S = {} THEN 0 ELSE ValFrom(S, 0)

ShiftLeft(S, k, width) == {b + k : b \in S} \cap (0..(width - 1))

ShiftRight(S, k) == {b - k : b \in {c \in S : c >= k}}

\* (uint32_t) X: two's complement bit pattern of a C integer
U32T(x) == IF x >= 0 THEN Bits(x) ELSE (0..31) \ Bits(-(x + 1))

\* (uint64_t) X of a 32 bit signed value: sign extension
U64T(x) == IF x >= 0 THEN Bits(x) ELSE (0..63) \ Bits(-(x + 1))

\* (int64_t) X of a 64 bit pattern: the same 64 bits, read as signed
I64T(S) == S

\* (uint16_t) X of a 32 bit pattern: the low 16 bits, as a number
U16T(S) == Val(S \cap (0..15))

\* a 32 bit pattern read as int32_t
I32T(S) == IF 31 \in S THEN (-Val((0..30) \ S)) - 1 ELSE Val(S)

\* a C integer converted to bool, and back
BoolT(S) == S # {}

BoolToInt(b) == IF b THEN 1 ELSE 0

bswap32(S) == {(3 - (b \div 8)) * 8 + (b % 8) : b \in S}

htole32(S) == IF hostBigEndian THEN bswap32(S) ELSE S

le32toh(S) == IF hostBigEndian THEN bswap32(S) ELSE S

(***************************************************************************)
(* common.h: valid mark, timestamp overflow shift, packet header.          *)
(***************************************************************************)
VALID_MARK_SHIFT == 0

VALID_MARK_MASK == 1

TS_OVERFLOW_SHIFT == 31

POLARITY_EVENT == "POLARITY_EVENT"

IMU9_EVENT == "IMU9_EVENT"

\* the null pointer; the pointer packet->events + n is the tuple <<n>>
NULL == <<>>

caerEventPacketHeaderGetEventCapacity(header) == header.eventCapacity

caerEventPacketHeaderGetEventNumber(header) == header.eventNumber

caerEventPacketHeaderSetEventNumber(header, eventsNumber) ==
    [header EXCEPT !.eventNumber = eventsNumber]

caerEventPacketHeaderGetEventValid(header) == header.eventValid

caerEventPacketHeaderSetEventValid(header, eventsValid) ==
    [header EXCEPT !.eventValid = eventsValid]

caerEventPacketHeaderGetEventTSOverflow(header) == header.eventTSOverflow

caerEventPacketHeaderSetEventTSOverflow(header, eventTSOverflow) ==
    [header EXCEPT !.eventTSOverflow = eventTSOverflow]

(***************************************************************************)
(* log.c                                                                   *)
(***************************************************************************)
CAER_LOG_CRITICAL == 2

CAER_LOG_ERROR == 3

NoLine == <<>>

\* the line caerLog() leaves on stderr (the last line is kept)
caerLog(logLevel, subSystem, format, args) ==
    IF logLevel <= caerLogLevel
    THEN stderr' = <<logLevel, subSystem, format, args>>
    ELSE UNCHANGED stderr

(***************************************************************************)
(* polarity.h                                                              *)
(***************************************************************************)
POLARITY_SHIFT == 1

POLARITY_MASK == 1

Y_ADDR_SHIFT == 2

Y_ADDR_MASK == 32767

X_ADDR_SHIFT == 17

X_ADDR_MASK == 32767

\* allocation: header filled in, event memory zeroed
caerPolarityEventPacketAllocate(eventCapacity, eventSource, tsOverflow) ==
    IF eventCapacity <= 0 THEN NULL
    ELSE [packetHeader |-> [eventType |-> POLARITY_EVENT,
                            eventSource |-> eventSource,
                            eventCapacity |-> eventCapacity,
                            eventNumber |-> 0,
                            eventValid |-> 0,
                            eventTSOverflow |-> tsOverflow],
          events |-> [n \in 0..(eventCapacity - 1) |->
                         [data |-> {}, timestamp |-> {}]]]

\* variant: the index is checked against eventNumber
GetEvent_BoundedByEventNumber(pkt, n) ==
    IF n < 0 \/ n >= caerEventPacketHeaderGetEventNumber(pkt.packetHeader)
    THEN NULL
    ELSE <<n>>

caerPolarityEventPacketGetEvent(pkt, n) ==
    IF n < 0 \/ n >= caerEventPacketHeaderGetEventCapacity(pkt.packetHeader)
    THEN NULL
    ELSE <<n>>

\* the whole call: the diagnostic of the out of bounds branch
PolarityGetEventCall(n) ==
    /\ packet.packetHeader.eventType = POLARITY_EVENT
    /\ IF caerPolarityEventPacketGetEvent(packet, n) = NULL
       THEN caerLog(CAER_LOG_CRITICAL, "Polarity Event", "GetEvent: invalid event offset",
                    <<n, caerEventPacketHeaderGetEventCapacity(packet.packetHeader)>>)
       ELSE UNCHANGED stderr
    /\ UNCHANGED <<packet, hostBigEndian, caerLogLevel, writer, overlap>>

caerPolarityEventGetTimestamp(event) == I32T(le32toh(event.timestamp))

\* variant: the overflow counter is shifted by 32
GetTimestamp64_Shift32(event, pkt) ==
    I64T(ShiftLeft(U64T(caerEventPacketHeaderGetEventTSOverflow(pkt.packetHeader)),
                   TS_OVERFLOW_SHIFT + 1, 64)
         \cup U64T(caerPolarityEventGetTimestamp(event)))

caerPolarityEventGetTimestamp64(event, pkt) ==
    I64T(ShiftLeft(U64T(caerEventPacketHeaderGetEventTSOverflow(pkt.packetHeader)),
                   TS_OVERFLOW_SHIFT, 64)
         \cup U64T(caerPolarityEventGetTimestamp(event)))

\* variant: the sign of the timestamp is not checked
SetTimestamp_Unchecked(e, timestamp) ==
    /\ packet.packetHeader.eventType = POLARITY_EVENT
    /\ packet' = [packet EXCEPT !.events[e[1]].timestamp = htole32(U32T(timestamp))]
    /\ UNCHANGED <<hostBigEndian, caerLogLevel, stderr, writer, overlap>>

caerPolarityEventSetTimestamp(e, timestamp) ==
    /\ packet.packetHeader.eventType = POLARITY_EVENT
    /\ IF timestamp < 0
       THEN /\ caerLog(CAER_LOG_CRITICAL, "Polarity Event", "SetTimestamp: negative value", <<>>)
            /\ UNCHANGED packet
       ELSE /\ packet' = [packet EXCEPT !.events[e[1]].timestamp = htole32(U32T(timestamp))]
            /\ UNCHANGED stderr
    /\ UNCHANGED <<hostBigEndian, caerLogLevel, writer, overlap>>

caerPolarityEventIsValid(event) ==
    BoolT(ShiftRight(le32toh(event.data), VALID_MARK_SHIFT) \cap Bits(VALID_MARK_MASK))

\* variant: the valid mark is not tested first
Validate_Untested(e) ==
    /\ packet.packetHeader.eventType = POLARITY_EVENT
    /\ LET h0 == packet.packetHeader
           h1 == caerEventPacketHeaderSetEventNumber(h0,
                     caerEventPacketHeaderGetEventNumber(h0) + 1)
           h2 == caerEventPacketHeaderSetEventValid(h1,
                     caerEventPacketHeaderGetEventValid(h1) + 1)
       IN packet' = [packet EXCEPT
              !.events[e[1]].data = @ \cup htole32(ShiftLeft(U32T(1), VALID_MARK_SHIFT, 32)),
              !.packetHeader = h2]
    /\ UNCHANGED <<hostBigEndian, caerLogLevel, stderr, writer, overlap>>

caerPolarityEventValidate(e) ==
    /\ packet.packetHeader.eventType = POLARITY_EVENT
    /\ IF ~caerPolarityEventIsValid(packet.events[e[1]])
       THEN LET h0 == packet.packetHeader
                h1 == caerEventPacketHeaderSetEventNumber(h0,
                          caerEventPacketHeaderGetEventNumber(h0) + 1)
                h2 == caerEventPacketHeaderSetEventValid(h1,
                          caerEventPacketHeaderGetEventValid(h1) + 1)
            IN /\ packet' = [packet EXCEPT
                      !.events[e[1]].data = @ \cup htole32(ShiftLeft(U32T(1), VALID_MARK_SHIFT, 32)),
                      !.packetHeader = h2]
               /\ UNCHANGED stderr
       ELSE /\ caerLog(CAER_LOG_CRITICAL, "Polarity Event", "Validate: already valid event", <<>>)
            /\ UNCHANGED packet
    /\ UNCHANGED <<hostBigEndian, caerLogLevel, writer, overlap>>

\* variant: eventNumber is decremented together with eventValid
Invalidate_DecrementsNumber(e) ==
    /\ packet.packetHeader.eventType = POLARITY_EVENT
    /\ IF caerPolarityEventIsValid(packet.events[e[1]])
       THEN LET h0 == packet.packetHeader
                h1 == caerEventPacketHeaderSetEventValid(h0,
                          caerEventPacketHeaderGetEventValid(h0) - 1)
                h2 == caerEventPacketHeaderSetEventNumber(h1,
                          caerEventPacketHeaderGetEventNumber(h1) - 1)
            IN /\ packet' = [packet EXCEPT
                      !.events[e[1]].data = @ \cap htole32((0..31) \ ShiftLeft(U32T(1), VALID_MARK_SHIFT, 32)),
                      !.packetHeader = h2]
               /\ UNCHANGED stderr
       ELSE /\ caerLog(CAER_LOG_CRITICAL, "Polarity Event", "Invalidate: already invalid event", <<>>)
            /\ UNCHANGED packet
    /\ UNCHANGED <<hostBigEndian, caerLogLevel, writer, overlap>>

caerPolarityEventInvalidate(e) ==
    /\ packet.packetHeader.eventType = POLARITY_EVENT
    /\ IF caerPolarityEventIsValid(packet.events[e[1]])
       THEN LET h0 == packet.packetHeader
                h1 == caerEventPacketHeaderSetEventValid(h0,
                          caerEventPacketHeaderGetEventValid(h0) - 1)
            IN /\ packet' = [packet EXCEPT
                      !.events[e[1]].data = @ \cap htole32((0..31) \ ShiftLeft(U32T(1), VALID_MARK_SHIFT, 32)),
                      !.packetHeader = h1]
               /\ UNCHANGED stderr
       ELSE /\ caerLog(CAER_LOG_CRITICAL, "Polarity Event", "Invalidate: already invalid event", <<>>)
            /\ UNCHANGED packet
    /\ UNCHANGED <<hostBigEndian, caerLogLevel, writer, overlap>>

caerPolarityEventGetPolarity(event) ==
    BoolT(ShiftRight(le32toh(event.data), POLARITY_SHIFT) \cap Bits(POLARITY_MASK))

\* variant: the polarity bit is not shifted past the valid mark
SetPolarity_Unshifted(e, polarity) ==
    /\ packet.packetHeader.eventType = POLARITY_EVENT
    /\ packet' = [packet EXCEPT !.events[e[1]].data = @ \cup
           htole32(ShiftLeft(U32T(BoolToInt(polarity)) \cap Bits(POLARITY_MASK), VALID_MARK_SHIFT, 32))]
    /\ UNCHANGED <<hostBigEndian, caerLogLevel, stderr, writer, overlap>>

caerPolarityEventSetPolarity(e, polarity) ==
    /\ packet.packetHeader.eventType = POLARITY_EVENT
    /\ packet' = [packet EXCEPT !.events[e[1]].data = @ \cup
           htole32(ShiftLeft(U32T(BoolToInt(polarity)) \cap Bits(POLARITY_MASK), POLARITY_SHIFT, 32))]
    /\ UNCHANGED <<hostBigEndian, caerLogLevel, stderr, writer, overlap>>

caerPolarityEventGetY(event) ==
    U16T(ShiftRight(le32toh(event.data), Y_ADDR_SHIFT) \cap Bits(Y_ADDR_MASK))

\* variant: the field is cleared before it is written (an overwrite)
SetY_Overwrites(e, yAddress) ==
    /\ packet.packetHeader.eventType = POLARITY_EVENT
    /\ packet' = [packet EXCEPT !.events[e[1]].data =
           (@ \ htole32(ShiftLeft(Bits(Y_ADDR_MASK), Y_ADDR_SHIFT, 32))) \cup
           htole32(ShiftLeft(U32T(yAddress) \cap Bits(Y_ADDR_MASK), Y_ADDR_SHIFT, 32))]
    /\ UNCHANGED <<hostBigEndian, caerLogLevel, stderr, writer, overlap>>

caerPolarityEventSetY(e, yAddress) ==
    /\ packet.packetHeader.eventType = POLARITY_EVENT
    /\ packet' = [packet EXCEPT !.events[e[1]].data = @ \cup
           htole32(ShiftLeft(U32T(yAddress) \cap Bits(Y_ADDR_MASK), Y_ADDR_SHIFT, 32))]
    /\ UNCHANGED <<hostBigEndian, caerLogLevel, stderr, writer, overlap>>

caerPolarityEventGetX(event) ==
    U16T(ShiftRight(le32toh(event.data), X_ADDR_SHIFT) \cap Bits(X_ADDR_MASK))

\* variant: X is shifted by one bit too few and overlaps Y
SetX_ShiftedIntoY(e, xAddress) ==
    /\ packet.packetHeader.eventType = POLARITY_EVENT
    /\ packet' = [packet EXCEPT !.events[e[1]].data = @ \cup
           htole32(ShiftLeft(U32T(xAddress) \cap Bits(X_ADDR_MASK), X_ADDR_SHIFT - 1, 32))]
    /\ UNCHANGED <<hostBigEndian, caerLogLevel, stderr, writer, overlap>>

caerPolarityEventSetX(e, xAddress) ==
    /\ packet.packetHeader.eventType = POLARITY_EVENT
    /\ packet' = [packet EXCEPT !.events[e[1]].data = @ \cup
           htole32(ShiftLeft(U32T(xAddress) \cap Bits(X_ADDR_MASK), X_ADDR_SHIFT, 32))]
    /\ UNCHANGED <<hostBigEndian, caerLogLevel, stderr, writer, overlap>>

(***************************************************************************)
(* imu9.h (the validity, timestamp and indexing functions; the float       *)
(* channels take no part in the packet protocol)                           *)
(***************************************************************************)
caerIMU9EventPacketAllocate(eventCapacity, eventSource, tsOverflow) ==
    IF eventCapacity <= 0 THEN NULL
    ELSE [packetHeader |-> [eventType |-> IMU9_EVENT,
                            eventSource |-> eventSource,
                            eventCapacity |-> eventCapacity,
                            eventNumber |-> 0,
                            eventValid |-> 0,
                            eventTSOverflow |-> tsOverflow],
          events |-> [n \in 0..(eventCapacity - 1) |->
                         [info |-> {}, timestamp |-> {}]]]

caerIMU9EventPacketGetEvent(pkt, n) ==
    IF n < 0 \/ n >= caerEventPacketHeaderGetEventCapacity(pkt.packetHeader)
    THEN NULL
    ELSE <<n>>

IMU9GetEventCall(n) ==
    /\ packet.packetHeader.eventType = IMU9_EVENT
    /\ IF caerIMU9EventPacketGetEvent(packet, n) = NULL
       THEN caerLog(CAER_LOG_CRITICAL, "IMU9 Event", "GetEvent: invalid event offset",
                    <<n, caerEventPacketHeaderGetEventCapacity(packet.packetHeader)>>)
       ELSE UNCHANGED stderr
    /\ UNCHANGED <<packet, hostBigEndian, caerLogLevel, writer, overlap>>

caerIMU9EventGetTimestamp(event) == I32T(le32toh(event.timestamp))

caerIMU9EventGetTimestamp64(event, pkt) ==
    I64T(ShiftLeft(U64T(caerEventPacketHeaderGetEventTSOverflow(pkt.packetHeader)),
                   TS_OVERFLOW_SHIFT, 64)
         \cup U64T(caerIMU9EventGetTimestamp(event)))

caerIMU9EventSetTimestamp(e, timestamp) ==
    /\ packet.packetHeader.eventType = IMU9_EVENT
    /\ IF timestamp < 0
       THEN /\ caerLog(CAER_LOG_CRITICAL, "IMU9 Event", "SetTimestamp: negative value", <<>>)
            /\ UNCHANGED packet
       ELSE /\ packet' = [packet EXCEPT !.events[e[1]].timestamp = htole32(U32T(timestamp))]
            /\ UNCHANGED stderr
    /\ UNCHANGED <<hostBigEndian, caerLogLevel, writer, overlap>>

caerIMU9EventIsValid(event) ==
    BoolT(ShiftRight(le32toh(event.info), VALID_MARK_SHIFT) \cap Bits(VALID_MARK_MASK))

caerIMU9EventValidate(e) ==
    /\ packet.packetHeader.eventType = IMU9_EVENT
    /\ IF ~caerIMU9EventIsValid(packet.events[e[1]])
       THEN LET h0 == packet.packetHeader
                h1 == caerEventPacketHeaderSetEventNumber(h0,
                          caerEventPacketHeaderGetEventNumber(h0) + 1)
                h2 == caerEventPacketHeaderSetEventValid(h1,
                          caerEventPacketHeaderGetEventValid(h1) + 1)
            IN /\ packet' = [packet EXCEPT
                      !.events[e[1]].info = @ \cup htole32(ShiftLeft(U32T(1), VALID_MARK_SHIFT, 32)),
                      !.packetHeader = h2]
               /\ UNCHANGED stderr
       ELSE /\ caerLog(CAER_LOG_CRITICAL, "IMU9 Event", "Validate: already valid event", <<>>)
            /\ UNCHANGED packet
    /\ UNCHANGED <<hostBigEndian, caerLogLevel, writer, overlap>>

caerIMU9EventInvalidate(e) ==
    /\ packet.packetHeader.eventType = IMU9_EVENT
    /\ IF caerIMU9EventIsValid(packet.events[e[1]])
       THEN LET h0 == packet.packetHeader
                h1 == caerEventPacketHeaderSetEventValid(h0,
                          caerEventPacketHeaderGetEventValid(h0) - 1)
            IN /\ packet' = [packet EXCEPT
                      !.events[e[1]].info = @ \cap htole32((0..31) \ ShiftLeft(U32T(1), VALID_MARK_SHIFT, 32)),
                      !.packetHeader = h1]
               /\ UNCHANGED stderr
       ELSE /\ caerLog(CAER_LOG_CRITICAL, "IMU9 Event", "Invalidate: already invalid event", <<>>)
            /\ UNCHANGED packet
    /\ UNCHANGED <<hostBigEndian, caerLogLevel, writer, overlap>>

(***************************************************************************)
(* The client of one packet: a single thread that allocates a packet and   *)
(* then calls the accessors on events obtained from GetEvent().            *)
(***************************************************************************)
NoWriters == <<>>

Allocated(types, capacities, overflows) ==
    /\ \E c \in capacities, o \in overflows :
          packet \in {p \in {caerPolarityEventPacketAllocate(c, 1, o),
                             caerIMU9EventPacketAllocate(c, 1, o)} :
                         p.packetHeader.eventType \in types}
    /\ hostBigEndian \in BOOLEAN
    /\ caerLogLevel = CAER_LOG_ERROR
    /\ stderr = NoLine
    /\ writer = NoWriters
    /\ overlap = FALSE

IndexInputs == (-1)..MaxCapacity

TimestampInputs == {INT32_MIN, -1, 0, 5, INT32_MAX}

OverflowInputs == {0, 1, 3, INT32_MAX}

PolarityEvents == {caerPolarityEventPacketGetEvent(packet, n) : n \in IndexInputs} \ {NULL}

IMU9Events == {caerIMU9EventPacketGetEvent(packet, n) : n \in IndexInputs} \ {NULL}

\* the model stops validating once eventNumber is MaxRevalidations above capacity
BelowMaxEventNumber ==
    packet.packetHeader.eventNumber < packet.packetHeader.eventCapacity + MaxRevalidations

\* the device layer bumps the overflow counter when the 31 bit timestamp wraps
TSOverflowAdvance(o) ==
    /\ o > caerEventPacketHeaderGetEventTSOverflow(packet.packetHeader)
    /\ packet' = [packet EXCEPT !.packetHeader =
                     caerEventPacketHeaderSetEventTSOverflow(@, o)]
    /\ UNCHANGED <<hostBigEndian, caerLogLevel, stderr, writer, overlap>>

(***************************************************************************)
(* Spec: the validity protocol and indexing of both packet types.          *)
(***************************************************************************)
Init == Allocated({POLARITY_EVENT, IMU9_EVENT}, 1..MaxCapacity, {0})

PolarityGetEvent == \E n \in IndexInputs : PolarityGetEventCall(n)

PolarityValidate == \E e \in PolarityEvents : BelowMaxEventNumber /\ caerPolarityEventValidate(e)

PolarityInvalidate == \E e \in PolarityEvents : caerPolarityEventInvalidate(e)

IMU9GetEvent == \E n \in IndexInputs : IMU9GetEventCall(n)

IMU9Validate == \E e \in IMU9Events : BelowMaxEventNumber /\ caerIMU9EventValidate(e)

IMU9Invalidate == \E e \in IMU9Events : caerIMU9EventInvalidate(e)

Next ==
    \/ PolarityGetEvent
    \/ PolarityValidate
    \/ PolarityInvalidate
    \/ IMU9GetEvent
    \/ IMU9Validate
    \/ IMU9Invalidate

Spec == Init /\ [][Next]_vars

(***************************************************************************)
(* SpecTs: timestamps are written into the records of a packet while the   *)
(* device layer advances the overflow counter.                             *)
(***************************************************************************)
InitTs == Allocated({POLARITY_EVENT, IMU9_EVENT}, 1..MaxCapacity, {0, 3})

PolaritySetTimestamp == \E e \in PolarityEvents, t \in TimestampInputs : caerPolarityEventSetTimestamp(e, t)

IMU9SetTimestamp == \E e \in IMU9Events, t \in TimestampInputs : caerIMU9EventSetTimestamp(e, t)

TSOverflow == \E o \in OverflowInputs : TSOverflowAdvance(o)

NextTs ==
    \/ PolaritySetTimestamp
    \/ IMU9SetTimestamp
    \/ TSOverflow

SpecTs == InitTs /\ [][NextTs]_vars

(***************************************************************************)
(* SpecFields: a Polarity packet whose records are filled in with the      *)
(* field setters while events are validated and invalidated.               *)
(***************************************************************************)
FieldTimestampInputs == {5}

FieldAddressInputs == {65535}

InitFields == Allocated({POLARITY_EVENT, IMU9_EVENT}, 1..MaxCapacity, {0})

FieldsSetTimestamp == \E e \in PolarityEvents, t \in FieldTimestampInputs : caerPolarityEventSetTimestamp(e, t)

FieldsSetPolarity == \E e \in PolarityEvents, p \in BOOLEAN : caerPolarityEventSetPolarity(e, p)

FieldsSetY == \E e \in PolarityEvents, y \in FieldAddressInputs : caerPolarityEventSetY(e, y)

FieldsSetX == \E e \in PolarityEvents, x \in FieldAddressInputs : caerPolarityEventSetX(e, x)

FieldsIMU9SetTimestamp == \E e \in IMU9Events, t \in FieldTimestampInputs : caerIMU9EventSetTimestamp(e, t)

NextFields ==
    \/ PolarityValidate
    \/ PolarityInvalidate
    \/ FieldsSetTimestamp
    \/ FieldsSetPolarity
    \/ FieldsSetY
    \/ FieldsSetX
    \/ IMU9Validate
    \/ IMU9Invalidate
    \/ FieldsIMU9SetTimestamp

SpecFields == InitFields /\ [][NextFields]_vars

(***************************************************************************)
(* SpecCodec: the bit field codec on one Polarity record.                  *)
(***************************************************************************)
CodecYInputs == {0, 1, 2, 32767, 32769}

CodecXInputs == {0, 21845, 32767, 65535}

InitCodec == Allocated({POLARITY_EVENT, IMU9_EVENT}, {1}, {0})

CodecSetPolarity == \E e \in PolarityEvents, p \in BOOLEAN : caerPolarityEventSetPolarity(e, p)

CodecSetY == \E e \in PolarityEvents, y \in CodecYInputs : caerPolarityEventSetY(e, y)

CodecSetX == \E e \in PolarityEvents, x \in CodecXInputs : caerPolarityEventSetX(e, x)

NextCodec ==
    \/ PolarityValidate
    \/ PolarityInvalidate
    \/ FieldsSetTimestamp
    \/ CodecSetPolarity
    \/ CodecSetY
    \/ CodecSetX
    \/ IMU9Validate
    \/ IMU9Invalidate
    \/ FieldsIMU9SetTimestamp

SpecCodec == InitCodec /\ [][NextCodec]_vars

(***************************************************************************)
(* SpecRace: two writer threads validate the events of one packet without  *)
(* synchronisation.  Writer 1 owns the slots below the split point and     *)
(* writer 2 the slots from it on.  A Validate() call is the sequence of    *)
(* its memory accesses: test the valid mark, set it, read eventNumber,     *)
(* write eventNumber, read eventValid, write eventValid.                   *)
(***************************************************************************)
Writers == {1, 2}

InValidate(w) == writer[w].pc \notin {"call", "done"}

\* some other writer is inside a Validate() call while w takes a step
Interleaves(w) == \E v \in Writers \ {w} : InValidate(v)

InitRace ==
    /\ \E c \in 2..MaxCapacity :
          /\ packet \in {caerPolarityEventPacketAllocate(c, 1, 0),
                         caerIMU9EventPacketAllocate(c, 1, 0)}
          /\ \E split \in 1..(c - 1) :
                writer = [w \in Writers |->
                             [pc |-> "call",
                              cur |-> IF w = 1 THEN 0 ELSE split,
                              end |-> IF w = 1 THEN split ELSE c,
                              tmp |-> 0]]
    /\ hostBigEndian \in BOOLEAN
    /\ caerLogLevel = CAER_LOG_ERROR
    /\ stderr = NoLine
    /\ overlap = FALSE

RaceAfterCall(w) ==
    [writer[w] EXCEPT !.cur = @ + 1,
                      !.pc = IF writer[w].cur + 1 = writer[w].end THEN "done" ELSE "call"]

\* if (!caerPolarityEventIsValid(event)) ... else caerLog(...)
PolarityRaceTest(w) ==
    /\ packet.packetHeader.eventType = POLARITY_EVENT
    /\ writer[w].pc = "call"
    /\ IF ~caerPolarityEventIsValid(packet.events[writer[w].cur])
       THEN /\ writer' = [writer EXCEPT ![w].pc = "mark"]
            /\ UNCHANGED stderr
       ELSE /\ caerLog(CAER_LOG_CRITICAL, "Polarity Event", "Validate: already valid event", <<>>)
            /\ writer' = [writer EXCEPT ![w] = RaceAfterCall(w)]
    /\ overlap' = (overlap \/ Interleaves(w))
    /\ UNCHANGED <<packet, hostBigEndian, caerLogLevel>>

\* event->data |= htole32(U32T(1) << VALID_MARK_SHIFT)
PolarityRaceMark(w) ==
    /\ packet.packetHeader.eventType = POLARITY_EVENT
    /\ writer[w].pc = "mark"
    /\ packet' = [packet EXCEPT !.events[writer[w].cur].data =
                     @ \cup htole32(ShiftLeft(U32T(1), VALID_MARK_SHIFT, 32))]
    /\ writer' = [writer EXCEPT ![w].pc = "readNumber"]
    /\ overlap' = (overlap \/ Interleaves(w))
    /\ UNCHANGED <<hostBigEndian, caerLogLevel, stderr>>

IMU9RaceTest(w) ==
    /\ packet.packetHeader.eventType = IMU9_EVENT
    /\ writer[w].pc = "call"
    /\ IF ~caerIMU9EventIsValid(packet.events[writer[w].cur])
       THEN /\ writer' = [writer EXCEPT ![w].pc = "mark"]
            /\ UNCHANGED stderr
       ELSE /\ caerLog(CAER_LOG_CRITICAL, "IMU9 Event", "Validate: already valid event", <<>>)
            /\ writer' = [writer EXCEPT ![w] = RaceAfterCall(w)]
    /\ overlap' = (overlap \/ Interleaves(w))
    /\ UNCHANGED <<packet, hostBigEndian, caerLogLevel>>

IMU9RaceMark(w) ==
    /\ packet.packetHeader.eventType = IMU9_EVENT
    /\ writer[w].pc = "mark"
    /\ packet' = [packet EXCEPT !.events[writer[w].cur].info =
                     @ \cup htole32(ShiftLeft(U32T(1), VALID_MARK_SHIFT, 32))]
    /\ writer' = [writer EXCEPT ![w].pc = "readNumber"]
    /\ overlap' = (overlap \/ Interleaves(w))
    /\ UNCHANGED <<hostBigEndian, caerLogLevel, stderr>>

\* the argument caerEventPacketHeaderGetEventNumber(&packet->packetHeader) + 1
RaceReadNumber(w) ==
    /\ writer[w].pc = "readNumber"
    /\ writer' = [writer EXCEPT
           ![w].tmp = caerEventPacketHeaderGetEventNumber(packet.packetHeader) + 1,
           ![w].pc = "writeNumber"]
    /\ overlap' = (overlap \/ Interleaves(w))
    /\ UNCHANGED <<packet, hostBigEndian, caerLogLevel, stderr>>

\* variant: the stored count is one more than the value computed
RaceWriteNumber_OneMore(w) ==
    /\ writer[w].pc = "writeNumber"
    /\ packet' = [packet EXCEPT !.packetHeader =
                     caerEventPacketHeaderSetEventNumber(@, writer[w].tmp + 1)]
    /\ writer' = [writer EXCEPT ![w].pc = "readValid"]
    /\ overlap' = (overlap \/ Interleaves(w))
    /\ UNCHANGED <<hostBigEndian, caerLogLevel, stderr>>

\* caerEventPacketHeaderSetEventNumber(&packet->packetHeader, ...)
RaceWriteNumber(w) ==
    /\ writer[w].pc = "writeNumber"
    /\ packet' = [packet EXCEPT !.packetHeader =
                     caerEventPacketHeaderSetEventNumber(@, writer[w].tmp)]
    /\ writer' = [writer EXCEPT ![w].pc = "readValid"]
    /\ overlap' = (overlap \/ Interleaves(w))
    /\ UNCHANGED <<hostBigEndian, caerLogLevel, stderr>>

\* the argument caerEventPacketHeaderGetEventValid(&packet->packetHeader) + 1
RaceReadValid(w) ==
    /\ writer[w].pc = "readValid"
    /\ writer' = [writer EXCEPT
           ![w].tmp = caerEventPacketHeaderGetEventValid(packet.packetHeader) + 1,
           ![w].pc = "writeValid"]
    /\ overlap' = (overlap \/ Interleaves(w))
    /\ UNCHANGED <<packet, hostBigEndian, caerLogLevel, stderr>>

\* caerEventPacketHeaderSetEventValid(&packet->packetHeader, ...); return
RaceWriteValid(w) ==
    /\ writer[w].pc = "writeValid"
    /\ packet' = [packet EXCEPT !.packetHeader =
                     caerEventPacketHeaderSetEventValid(@, writer[w].tmp)]
    /\ writer' = [writer EXCEPT ![w] = RaceAfterCall(w)]
    /\ overlap' = (overlap \/ Interleaves(w))
    /\ UNCHANGED <<hostBigEndian, caerLogLevel, stderr>>

NextRace ==
    \/ \E w \in Writers : PolarityRaceTest(w)
    \/ \E w \in Writers : PolarityRaceMark(w)
    \/ \E w \in Writers : IMU9RaceTest(w)
    \/ \E w \in Writers : IMU9RaceMark(w)
    \/ \E w \in Writers : RaceReadNumber(w)
    \/ \E w \in Writers : RaceWriteNumber(w)
    \/ \E w \in Writers : RaceReadValid(w)
    \/ \E w \in Writers : RaceWriteValid(w)

SpecRace == InitRace /\ [][NextRace]_vars

(***************************************************************************)
(* Observations of a packet used by the properties below.                  *)
(***************************************************************************)
Header == packet.packetHeader

IsPolarity == Header.eventType = POLARITY_EVENT

Slots == DOMAIN packet.events

IsValidIn(pkt, n) ==
    IF IsPolarity THEN caerPolarityEventIsValid(pkt.events[n])
    ELSE caerIMU9EventIsValid(pkt.events[n])

\* the packed word of record n as the host decodes it
WordIn(pkt, n) ==
    le32toh(IF IsPolarity THEN pkt.events[n].data ELSE pkt.events[n].info)

TimestampIn(pkt, n) ==
    IF IsPolarity THEN caerPolarityEventGetTimestamp(pkt.events[n])
    ELSE caerIMU9EventGetTimestamp(pkt.events[n])

Timestamp64In(pkt, n) ==
    IF IsPolarity THEN caerPolarityEventGetTimestamp64(pkt.events[n], pkt)
    ELSE caerIMU9EventGetTimestamp64(pkt.events[n], pkt)

EventIsValid(n) == IsValidIn(packet, n)

EventWord(n) == WordIn(packet, n)

EventTimestamp(n) == TimestampIn(packet, n)

EventTimestamp64(n) == Timestamp64In(packet, n)

GetEventOf(n) ==
    IF IsPolarity THEN caerPolarityEventPacketGetEvent(packet, n)
    ELSE caerIMU9EventPacketGetEvent(packet, n)

ValidateOf(e) == caerPolarityEventValidate(e) \/ caerIMU9EventValidate(e)

InvalidateOf(e) == caerPolarityEventInvalidate(e) \/ caerIMU9EventInvalidate(e)

SetTimestampOf(e, t) == caerPolarityEventSetTimestamp(e, t) \/ caerIMU9EventSetTimestamp(e, t)

ValidRecords == {n \in Slots : EventIsValid(n)}

LastDiagnostic == IF stderr = NoLine THEN "" ELSE stderr[3]

BitOr(a, b) == Val(Bits(a) \cup Bits(b))

BitAnd(a, b) == Val(Bits(a) \cap Bits(b))

\* unsigned comparison of two bit patterns: the highest differing bit decides
BitsLess(a, b) ==
    LET d == (a \ b) \cup (b \ a)
    IN d # {} /\ (CHOOSE m \in d : \A c \in d : c <= m) \in b

LexLess(o1, t1, o2, t2) == o1 < o2 \/ (o1 = o2 /\ t1 < t2)

(***************************************************************************)
(* C1: after any sequence of validate and invalidate calls on events of a  *)
(* freshly allocated packet, 0 <= eventValid <= eventNumber <=             *)
(* eventCapacity.                                                          *)
(***************************************************************************)
C1_HeaderCountersOrdered ==
    /\ 0 <= Header.eventValid
    /\ Header.eventValid <= Header.eventNumber
    /\ Header.eventNumber <= Header.eventCapacity

(***************************************************************************)
(* C2: eventValid equals the number of records whose valid mark is set     *)
(* after any sequence of validate, invalidate, setTimestamp and Polarity   *)
(* field setter calls.  (The setters leave the header alone, so a setter   *)
(* that changed a valid mark would break the equality.)                    *)
(***************************************************************************)
C2_EventValidCountsValidRecords == Header.eventValid = Cardinality(ValidRecords)

C2_Witness ==
    /\ IsPolarity
    /\ Header.eventCapacity >= 2
    /\ Header.eventValid = 1
    /\ Header.eventNumber = 2
    /\ \E n \in ValidRecords :
          /\ caerPolarityEventGetPolarity(packet.events[n])
          /\ caerPolarityEventGetY(packet.events[n]) = Y_ADDR_MASK
          /\ caerPolarityEventGetX(packet.events[n]) = X_ADDR_MASK
          /\ EventTimestamp(n) = 5
    /\ \E n \in Slots \ ValidRecords :
          caerPolarityEventGetX(packet.events[n]) = X_ADDR_MASK

(***************************************************************************)
(* C3: validate on an already valid record and invalidate on an already    *)
(* invalid record change no record and no header counter.                  *)
(***************************************************************************)
C3_MisuseStep ==
    \A e \in PolarityEvents \cup IMU9Events :
       /\ (EventIsValid(e[1]) /\ ValidateOf(e)) => UNCHANGED packet
       /\ (~EventIsValid(e[1]) /\ InvalidateOf(e)) => UNCHANGED packet

C3_MisuseIsNoOp == [][C3_MisuseStep]_vars

\* a second validate was diagnosed and the counters are those of one validate
C3_Witness ==
    /\ LastDiagnostic = "Validate: already valid event"
    /\ Header.eventNumber = 1
    /\ Header.eventValid = 1
    /\ Cardinality(ValidRecords) = 1

(***************************************************************************)
(* C4: validate on an invalid record sets the valid mark and takes the     *)
(* counters from (n, v) to (n+1, v+1); invalidate on a valid record clears *)
(* the mark and takes them from (n, v) to (n, v-1); the other bits of the  *)
(* packed word are unchanged by both.                                      *)
(***************************************************************************)
C4_ProtocolStep ==
    \A e \in PolarityEvents \cup IMU9Events :
       /\ (~EventIsValid(e[1]) /\ ValidateOf(e)) =>
             /\ IsValidIn(packet', e[1])
             /\ packet'.packetHeader.eventNumber = Header.eventNumber + 1
             /\ packet'.packetHeader.eventValid = Header.eventValid + 1
             /\ WordIn(packet', e[1]) \ {VALID_MARK_SHIFT} = EventWord(e[1]) \ {VALID_MARK_SHIFT}
       /\ (EventIsValid(e[1]) /\ InvalidateOf(e)) =>
             /\ ~IsValidIn(packet', e[1])
             /\ packet'.packetHeader.eventNumber = Header.eventNumber
             /\ packet'.packetHeader.eventValid = Header.eventValid - 1
             /\ WordIn(packet', e[1]) \ {VALID_MARK_SHIFT} = EventWord(e[1]) \ {VALID_MARK_SHIFT}

C4_ValidateThenInvalidate == [][C4_ProtocolStep]_vars

\* one record was validated and then invalidated, its fields are intact
C4_Witness ==
    /\ IsPolarity
    /\ Header.eventNumber = 1
    /\ Header.eventValid = 0
    /\ \E n \in Slots :
          /\ ~EventIsValid(n)
          /\ caerPolarityEventGetX(packet.events[n]) = 21845
          /\ caerPolarityEventGetY(packet.events[n]) = 3

(***************************************************************************)
(* C5: GetEvent(packet, n) is checked against eventCapacity: it returns    *)
(* slot n for 0 <= n < eventCapacity and the null pointer for every other  *)
(* n, and the call changes neither the header nor any record.              *)
(***************************************************************************)
C5_Indices == IndexInputs \cup {INT32_MIN, INT32_MAX}

C5_Returns ==
    \A n \in C5_Indices :
       GetEventOf(n) = IF 0 <= n /\ n < Header.eventCapacity THEN <<n>> ELSE NULL

C5_CallStep ==
    \A n \in IndexInputs :
       (PolarityGetEventCall(n) \/ IMU9GetEventCall(n)) => UNCHANGED packet

C5_GetEventBoundsChecked == []C5_Returns /\ [][C5_CallStep]_vars

\* an index at or above eventNumber but below eventCapacity is served, and an
\* out of range index was diagnosed
C5_Witness ==
    /\ LastDiagnostic = "GetEvent: invalid event offset"
    /\ stderr[4] = <<Header.eventCapacity, Header.eventCapacity>>
    /\ Header.eventNumber = 1
    /\ Header.eventCapacity >= 2
    /\ GetEventOf(1) = <<1>>

(***************************************************************************)
(* C6: SetTimestamp with a negative value changes nothing in the packet;   *)
(* every stored timestamp stays in [0, 2^31-1]; GetTimestamp returns the   *)
(* last non-negative value written, 0 if none.                             *)
(***************************************************************************)
C6_TimestampsNonNegative ==
    \A n \in Slots : 0 <= EventTimestamp(n) /\ EventTimestamp(n) <= INT32_MAX

C6_TimestampStep ==
    /\ \A e \in PolarityEvents \cup IMU9Events : \A t \in TimestampInputs :
          SetTimestampOf(e, t) =>
             IF t < 0 THEN UNCHANGED packet
             ELSE /\ TimestampIn(packet', e[1]) = t
                  /\ \A m \in Slots \ {e[1]} : TimestampIn(packet', m) = EventTimestamp(m)
                  /\ packet'.packetHeader = Header
    /\ \A n \in Slots :
          \/ packet'.events[n].timestamp = packet.events[n].timestamp
          \/ \E t \in TimestampInputs : t >= 0 /\ SetTimestampOf(<<n>>, t)

C6_NegativeTimestampRefused ==
    /\ []C6_TimestampsNonNegative
    /\ [][C6_TimestampStep]_vars

\* a negative write was diagnosed while the record holds an earlier value
C6_Witness ==
    /\ LastDiagnostic = "SetTimestamp: negative value"
    /\ \E n \in Slots : EventTimestamp(n) = INT32_MAX

(***************************************************************************)
(* C7: for an overflow counter o >= 0 and a stored timestamp t in          *)
(* [0, 2^31-1], GetTimestamp64 is the non-negative 64 bit value            *)
(* o * 2^31 + t (its low 31 bits are t, the bits above them are o; o = 3,  *)
(* t = 5 gives 2^32 + 2^31 + 5 = 6442450949), and it is strictly           *)
(* increasing in the lexicographic order of (o, t).                        *)
(***************************************************************************)
C7_Composed ==
    \A n \in Slots :
       LET o == Header.eventTSOverflow
           t == EventTimestamp(n)
           r == EventTimestamp64(n)
       IN (o >= 0 /\ t >= 0) =>
             /\ r \subseteq 0..62
             /\ Val(r \cap (0..30)) = t
             /\ Val(ShiftRight(r, 31)) = o
             /\ (o = 3 /\ t = 5) => r = {0, 2, 31, 32}

C7_SameCounter ==
    \A i, j \in Slots :
       EventTimestamp(i) < EventTimestamp(j) =>
          BitsLess(EventTimestamp64(i), EventTimestamp64(j))

C7_MonotoneStep ==
    \A i, j \in Slots :
       LexLess(Header.eventTSOverflow, EventTimestamp(i),
               packet'.packetHeader.eventTSOverflow, TimestampIn(packet', j))
          => BitsLess(EventTimestamp64(i), Timestamp64In(packet', j))

C7_Timestamp64Composition ==
    /\ [](C7_Composed /\ C7_SameCounter)
    /\ [][C7_MonotoneStep]_vars

C7_Witness ==
    /\ Header.eventTSOverflow = 3
    /\ \E n \in Slots : EventTimestamp(n) = 5 /\ EventTimestamp64(n) = {0, 2, 31, 32}
    /\ \E n \in Slots : EventTimestamp(n) = INT32_MAX

(***************************************************************************)
(* C8: on a zero-initialised Polarity record, setting one field to an      *)
(* in-range value v makes its getter return v, while the getters of the    *)
(* other two fields return 0 and the record is still invalid.              *)
(***************************************************************************)
C8_RoundTripStep ==
    \A e \in PolarityEvents :
       LET ev == packet.events[e[1]]
           new == packet'.events[e[1]] IN
       (IsPolarity /\ ev.data = {}) =>
          /\ \A v \in {a \in CodecYInputs : a <= Y_ADDR_MASK} :
                caerPolarityEventSetY(e, v) =>
                   /\ caerPolarityEventGetY(new) = v
                   /\ caerPolarityEventGetX(new) = 0
                   /\ ~caerPolarityEventGetPolarity(new)
                   /\ ~caerPolarityEventIsValid(new)
          /\ \A v \in {a \in CodecXInputs : a <= X_ADDR_MASK} :
                caerPolarityEventSetX(e, v) =>
                   /\ caerPolarityEventGetX(new) = v
                   /\ caerPolarityEventGetY(new) = 0
                   /\ ~caerPolarityEventGetPolarity(new)
                   /\ ~caerPolarityEventIsValid(new)
          /\ \A v \in BOOLEAN :
                caerPolarityEventSetPolarity(e, v) =>
                   /\ caerPolarityEventGetPolarity(new) = v
                   /\ caerPolarityEventGetX(new) = 0
                   /\ caerPolarityEventGetY(new) = 0
                   /\ ~caerPolarityEventIsValid(new)

C8_FieldRoundTrip == [][C8_RoundTripStep]_vars

\* the record that SetX(32767) leaves on a zeroed word
C8_Witness ==
    /\ IsPolarity
    /\ \E n \in Slots :
          /\ EventWord(n) = 17..31
          /\ caerPolarityEventGetX(packet.events[n]) = 32767
          /\ caerPolarityEventGetY(packet.events[n]) = 0

(***************************************************************************)
(* C9: two unsynchronised writers on disjoint index ranges keep the header *)
(* consistent: once both have validated their records, eventNumber and     *)
(* eventValid each equal the number of records validated.                  *)
(***************************************************************************)
RaceDone == \A w \in Writers : writer[w].pc = "done"

C9_PartitionedWritersConsistent ==
    RaceDone =>
       /\ Header.eventNumber = Cardinality(ValidRecords)
       /\ Header.eventValid = Cardinality(ValidRecords)

(***************************************************************************)
(* C9 as amended: once both writers have finished, every record is valid,  *)
(* and eventNumber and eventValid each lie between 1 and the number of     *)
(* records validated; they equal that number when no step of one writer    *)
(* fell inside a Validate() call of the other.                             *)
(***************************************************************************)
C9_PartitionedWritersBounded ==
    RaceDone =>
       /\ ValidRecords = Slots
       /\ 1 <= Header.eventNumber /\ Header.eventNumber <= Cardinality(Slots)
       /\ 1 <= Header.eventValid /\ Header.eventValid <= Cardinality(Slots)
       /\ ~overlap => /\ Header.eventNumber = Cardinality(Slots)
                      /\ Header.eventValid = Cardinality(Slots)

\* both writers are done, all records are valid and an increment was lost
C9_Witness ==
    /\ RaceDone
    /\ overlap
    /\ ValidRecords = Slots
    /\ Header.eventNumber < Cardinality(Slots)
    /\ Header.eventValid = Cardinality(Slots)

(***************************************************************************)
(* C10: a Polarity field setter called with a leaves in its field          *)
(* old OR (a AND mask) and leaves the other fields, the valid mark and     *)
(* the timestamp unchanged; hence a then b leaves old OR a OR b, not b.    *)
(***************************************************************************)
C10_YBits == {b + Y_ADDR_SHIFT : b \in Bits(Y_ADDR_MASK)}

C10_XBits == {b + X_ADDR_SHIFT : b \in Bits(X_ADDR_MASK)}

C10_PolarityBits == {b + POLARITY_SHIFT : b \in Bits(POLARITY_MASK)}

\* the bits of the word outside the field, and the timestamp, are unchanged
C10_RestUnchanged(n, fieldBits) ==
    /\ WordIn(packet', n) \ fieldBits = WordIn(packet, n) \ fieldBits
    /\ packet'.events[n].timestamp = packet.events[n].timestamp

C10_SetterStep ==
    \A e \in PolarityEvents :
       LET ev == packet.events[e[1]]
           new == packet'.events[e[1]] IN
       /\ \A a \in CodecYInputs :
             caerPolarityEventSetY(e, a) =>
                /\ caerPolarityEventGetY(new) = BitOr(caerPolarityEventGetY(ev), BitAnd(a, Y_ADDR_MASK))
                /\ C10_RestUnchanged(e[1], C10_YBits)
       /\ \A a \in CodecXInputs :
             caerPolarityEventSetX(e, a) =>
                /\ caerPolarityEventGetX(new) = BitOr(caerPolarityEventGetX(ev), BitAnd(a, X_ADDR_MASK))
                /\ C10_RestUnchanged(e[1], C10_XBits)
       /\ \A a \in BOOLEAN :
             caerPolarityEventSetPolarity(e, a) =>
                /\ caerPolarityEventGetPolarity(new) = (caerPolarityEventGetPolarity(ev) \/ a)
                /\ C10_RestUnchanged(e[1], C10_PolarityBits)

C10_SettersOnlySetBits == [][C10_SetterStep]_vars

\* Y was written with 1 and with 2 and reads 3, a value never written
C10_Witness ==
    /\ IsPolarity
    /\ \E n \in ValidRecords :
          /\ caerPolarityEventGetY(packet.events[n]) = 3
          /\ caerPolarityEventGetX(packet.events[n]) = 21845
          /\ caerPolarityEventGetPolarity(packet.events[n])
          /\ EventTimestamp(n) = 5

====
